---- MODULE Spec2Model ----
(***************************************************************************)
(* Model of backend/app.py: the FastAPI gateway with its two process-wide  *)
(* caches, cached_dict (issue-tracker client handles) and test_case_cache  *)
(* (generated test cases).                                                 *)
(*                                                                         *)
(* Strings are sequences of one-character strings, so that the f-string    *)
(* concatenations that derive the cache keys are computed, not assumed.    *)
(* Optional values are <<>> (None) or <<v>>.                               *)
(*                                                                         *)
(* The three POST handlers are "async def" coroutines that contain no      *)
(* await: JIRA(...), jira.myself(), jira.issue(), jira.search_issues() and *)
(* llm_model.invoke() are blocking calls made on the event-loop thread.    *)
(* A handler therefore runs from its first line to its return without any  *)
(* other handler running in between; the only thing that can happen while  *)
(* it waits inside a blocking call is that further requests are received   *)
(* by the server and queue up.  The model splits each handler at its       *)
(* blocking calls, so that a call that never returns can be represented.   *)
(***************************************************************************)
EXTENDS Integers, Sequences, FiniteSets, TLC

VARIABLES
    cached_dict,      \* app.py:68   cache key -> JIRA client handle
    test_case_cache,  \* app.py:179  md5 key  -> {content, token_count}
    reqs,             \* request id -> request received and not yet answered
    arrived,          \* number of requests received so far
    last,             \* the request answered most recently, with its response
    generated         \* history: triple -> first successful answer to it

vars == <<cached_dict, test_case_cache, reqs, arrived, last, generated>>

(***************************************************************************)
(* Bounds of the model.                                                    *)
(***************************************************************************)
MaxReqs == 2

(***************************************************************************)
(* Optional values and Python truthiness.                                  *)
(***************************************************************************)
None == <<>>
Some(v) == <<v>>

\* Python "a or b" for an Optional[str] a
OrStr(a, b) == IF a = None \/ a = Some(<<>>) THEN b ELSE a[1]

\* Python "a or b" for an Optional[int] a
OrInt(a, b) == IF a = None \/ a = Some(0) THEN b ELSE a[1]

EmptyMap == [k \in {} |-> k]

Put(m, k, v) == [x \in (DOMAIN m) \cup {k} |-> IF x = k THEN v ELSE m[x]]

Remove(m, k) == [x \in (DOMAIN m) \ {k} |-> m[x]]

(***************************************************************************)
(* Inputs the requests are drawn from.                                     *)
(***************************************************************************)
Domains == { <<"h">>, <<"h", ":">> }
Emails == { <<"p">>, <<":", "p">> }
Tokens == { "t1", "t2" }
EpicIds == { <<"E">> }
UserStories == { <<"s">>, <<"s", "|">> }
JiraIds == { <<"j">>, <<"|", "j">> }
Criteria == { None, Some(<<>>) }

\* what the generative-language collaborator may answer
Contents == { <<"x">>, <<" ", "x", " ", "y">> }

\* status_code attributes a JIRAError may carry
JiraStatus == { None, Some(401), Some(404) }

\* results of a call to the issue tracker
JiraOutcomes ==
    { [ok |-> TRUE, exc |-> "", status_code |-> None] }
    \cup { [ok |-> FALSE, exc |-> "JIRAError", status_code |-> s] : s \in JiraStatus }
    \cup { [ok |-> FALSE, exc |-> "Exception", status_code |-> None] }

\* results of llm_model.invoke followed by response.content
LlmOutcomes ==
    { [ok |-> TRUE, content |-> c] : c \in Contents }
    \cup { [ok |-> FALSE, content |-> <<>>] }

(***************************************************************************)
(* Pure functions of the source.                                           *)
(***************************************************************************)
\* f"{request.domain}:{request.email}"
session_cache_key(domain, email) == domain \o <<":">> \o email

\* f"{user_story}|{jira_id}|{acceptance_criteria}"
combined(user_story, jira_id, acceptance_criteria) ==
    user_story \o <<"|">> \o jira_id \o <<"|">> \o acceptance_criteria

\* hashlib.md5(...).hexdigest(), taken as an injective tagging of its input
md5_hexdigest(s) == <<"md5", s>>

create_cache_key(user_story, jira_id, acceptance_criteria) ==
    md5_hexdigest(combined(user_story, jira_id, acceptance_criteria))

\* variant: len(content.split(" ")), which also counts the empty pieces
token_count_split_on_space(content) ==
    1 + Cardinality({ i \in 1..Len(content) : content[i] = " " })

\* len(content.split()): the number of maximal runs of non-whitespace
token_count(content) ==
    Cardinality({ i \in 1..Len(content) :
                    /\ content[i] # " "
                    /\ (i = 1 \/ content[i - 1] = " ") })

(***************************************************************************)
(* Responses.                                                              *)
(***************************************************************************)
Ok(body) == [status_code |-> 200, body |-> body]

HTTPException(status_code, detail) == [status_code |-> status_code, body |-> <<"detail", detail>>]

\* variant: every failure other than 401 is reported as 500
JiraHandlerError_drops_status(out) ==
    IF out.exc = "JIRAError" /\ out.status_code = Some(401)
    THEN HTTPException(401, "Authentication failed: Invalid credentials")
    ELSE HTTPException(500, "Error connecting with JIRA")

\* the except clauses of authenticate_jira and fetch_epic_stories
JiraHandlerError(out) ==
    IF out.exc = "JIRAError"
    THEN IF out.status_code = Some(401)
         THEN HTTPException(401, "Authentication failed: Invalid credentials")
         ELSE HTTPException(OrInt(out.status_code, 500), "JIRA Error")
    ELSE HTTPException(500, "Error connecting with JIRA")

\* the except clause of generate_test_cases
GenerateHandlerError == HTTPException(500, "Error generating test cases")

(***************************************************************************)
(* Requests.                                                               *)
(***************************************************************************)
NoReq == [id |-> 0]

\* a request as received: nothing of its handler has run yet
NewReq(id, op, domain, email, jira_token, jira_id, user_story, acceptance_criteria) ==
    [ id |-> id, op |-> op,
      domain |-> domain, email |-> email, jira_token |-> jira_token,
      jira_id |-> jira_id,
      user_story |-> user_story, acceptance_criteria |-> acceptance_criteria,
      pc |-> "pending",      \* where the handler is
      hung |-> FALSE,        \* the blocking call it is in never returns
      cache_key |-> None,    \* the key the handler computed
      hit |-> FALSE,         \* the handler found its key in the cache
      jira |-> None,         \* the client handle the handler holds
      created |-> FALSE,     \* the handler constructed a JIRA client
      contacted |-> FALSE,   \* the handler reached the issue tracker for authentication
      verified |-> FALSE,    \* jira.myself() confirmed the credentials (line 77)
      stored |-> FALSE,      \* the handler wrote to a cache
      invoked |-> FALSE,     \* the handler called llm_model.invoke
      pre_cached_dict |-> EmptyMap,      \* cached_dict when the handler started
      pre_test_case_cache |-> EmptyMap,  \* test_case_cache when the handler started
      failure |-> None,      \* what the collaborator raised
      response |-> None ]

\* JIRA(server=..., basic_auth=(..., ...)): a new client object
NewHandle(r) ==
    [ id |-> r.id, server |-> r.domain, basic_auth |-> <<r.email, r.jira_token>> ]

Pending(id) == id \in DOMAIN reqs /\ reqs[id].pc = "pending"

At(id, op, pc) == id \in DOMAIN reqs /\ reqs[id].op = op /\ reqs[id].pc = pc /\ ~reqs[id].hung

\* variant: the handlers await their calls, so the loop is never held
LoopBusy_awaiting == FALSE

\* the event-loop thread is inside a handler
LoopBusy == \E id \in DOMAIN reqs : reqs[id].pc # "pending"

\* the handler moves on to its next blocking call, which may or may not return
Call(r, pc) == { [r EXCEPT !.pc = pc, !.hung = h] : h \in BOOLEAN }

\* the handler returns or raises: the request is answered
Complete(r, response) ==
    /\ reqs' = Remove(reqs, r.id)
    /\ last' = [r EXCEPT !.pc = "done", !.response = Some(response)]

\* the collaborator raised: the except clauses of the two issue-tracker handlers
RaiseJira(r, out) == Complete([r EXCEPT !.failure = Some(out)], JiraHandlerError(out))

\* the triple a generation request is about, as passed to create_cache_key
Triple(r) == <<r.user_story, r.jira_id, OrStr(r.acceptance_criteria, <<>>)>>

\* history: remember the first successful answer to each triple
Remember(r, result) ==
    generated' = IF Triple(r) \in DOMAIN generated
                 THEN generated
                 ELSE Put(generated, Triple(r), [by |-> r.id, result |-> result])

Init ==
    /\ cached_dict = EmptyMap
    /\ test_case_cache = EmptyMap
    /\ reqs = EmptyMap
    /\ arrived = 0
    /\ last = NoReq
    /\ generated = EmptyMap

(***************************************************************************)
(* The server receives a request; its handler is scheduled on the loop.    *)
(***************************************************************************)
Receive ==
    /\ arrived < MaxReqs
    /\ arrived' = arrived + 1
    /\ \E r \in
          { NewReq(arrived + 1, op, d, e, t, j, <<>>, None) :
              op \in {"authenticate", "fetch-stories"},
              d \in Domains, e \in Emails, t \in Tokens, j \in EpicIds }
          \cup
          { NewReq(arrived + 1, "generate-test-cases", <<>>, <<>>, "", j, u, c) :
              j \in JiraIds, u \in UserStories, c \in Criteria }
          \cup
          { NewReq(arrived + 1, "health", <<>>, <<>>, "", <<>>, <<>>, None) } :
          reqs' = Put(reqs, r.id, r)
    /\ UNCHANGED <<cached_dict, test_case_cache, last, generated>>

\* variant: a handler starts while another one is inside a call
Start_overlapping(id, op) ==
    /\ Pending(id)
    /\ reqs[id].op = op
    /\ \A other \in DOMAIN reqs : Pending(other) => id <= other

\* the handler of request id starts: the loop must be free, and it runs the
\* handlers in the order in which they were scheduled
Start(id, op) ==
    /\ Pending(id)
    /\ reqs[id].op = op
    /\ ~LoopBusy
    /\ \A other \in DOMAIN reqs : Pending(other) => id <= other

Started(r, key, hit) ==
    [r EXCEPT !.cache_key = Some(key), !.hit = hit,
              !.pre_cached_dict = cached_dict,
              !.pre_test_case_cache = test_case_cache]

(***************************************************************************)
(* health_check, app.py:31-33                                              *)
(***************************************************************************)
health_check(id) ==
    /\ Start(id, "health")
    /\ Complete([reqs[id] EXCEPT !.pre_cached_dict = cached_dict,
                                 !.pre_test_case_cache = test_case_cache],
                Ok("JIRA API Server running!"))
    /\ UNCHANGED <<cached_dict, test_case_cache, arrived, generated>>

(***************************************************************************)
(* authenticate_jira, app.py:71-96                                         *)
(***************************************************************************)
\* line 74: the handler enters JIRA(...) without looking at cached_dict
authenticate_jira_begin(id) ==
    /\ Start(id, "authenticate")
    /\ LET r == reqs[id]
           key == session_cache_key(r.domain, r.email)
           s == [Started(r, key, key \in DOMAIN cached_dict) EXCEPT !.contacted = TRUE]
       IN \E n \in Call(s, "JIRA") : reqs' = Put(reqs, id, n)
    /\ UNCHANGED <<cached_dict, test_case_cache, arrived, last, generated>>

\* lines 74-78: JIRA(...) returns or raises; on return the handler enters myself()
authenticate_jira_client(id, out) ==
    /\ At(id, "authenticate", "JIRA")
    /\ LET r == reqs[id] IN
       IF out.ok
       THEN /\ \E n \in Call([r EXCEPT !.jira = Some(NewHandle(r)), !.created = TRUE], "myself") :
                 reqs' = Put(reqs, id, n)
            /\ UNCHANGED last
       ELSE RaiseJira(r, out)
    /\ UNCHANGED <<cached_dict, test_case_cache, arrived, generated>>

\* variant: the handle is written to the other dictionary
authenticate_jira_myself_wrong_dict(id, out) ==
    /\ At(id, "authenticate", "myself")
    /\ LET r == reqs[id] IN
       IF out.ok
       THEN /\ test_case_cache' = Put(test_case_cache, r.cache_key[1], r.jira[1])
            /\ Complete([r EXCEPT !.stored = TRUE, !.verified = TRUE],
                        Ok(<<"authenticated", "displayName">>))
       ELSE /\ RaiseJira(r, out)
            /\ UNCHANGED test_case_cache
    /\ UNCHANGED <<cached_dict, arrived, generated>>

\* variant: a handle already stored for the key is kept
authenticate_jira_myself_keeps_existing(id, out) ==
    /\ At(id, "authenticate", "myself")
    /\ LET r == reqs[id] IN
       IF out.ok
       THEN /\ cached_dict' = IF r.cache_key[1] \in DOMAIN cached_dict
                              THEN cached_dict
                              ELSE Put(cached_dict, r.cache_key[1], r.jira[1])
            /\ Complete([r EXCEPT !.stored = TRUE, !.verified = TRUE],
                        Ok(<<"authenticated", "displayName">>))
       ELSE /\ RaiseJira(r, out)
            /\ UNCHANGED cached_dict
    /\ UNCHANGED <<test_case_cache, arrived, generated>>

\* lines 78-84: myself() returns or raises; on return the handle is stored
authenticate_jira_myself(id, out) ==
    /\ At(id, "authenticate", "myself")
    /\ LET r == reqs[id] IN
       IF out.ok
       THEN /\ cached_dict' = Put(cached_dict, r.cache_key[1], r.jira[1])
            /\ Complete([r EXCEPT !.stored = TRUE, !.verified = TRUE],
                        Ok(<<"authenticated", "displayName">>))
       ELSE /\ RaiseJira(r, out)
            /\ UNCHANGED cached_dict
    /\ UNCHANGED <<test_case_cache, arrived, generated>>

(***************************************************************************)
(* fetch_epic_stories, app.py:99-171                                       *)
(***************************************************************************)
\* variant: a stored handle counts only when it was built with the same token
fetch_epic_stories_lookup_checks_token(r) ==
    LET key == session_cache_key(r.domain, r.email)
        hit == /\ key \in DOMAIN cached_dict
               /\ cached_dict[key].basic_auth[2] = r.jira_token
        s == Started(r, key, hit)
    IN IF hit
       THEN [s EXCEPT !.jira = Some(cached_dict[key])]
       ELSE [s EXCEPT !.contacted = TRUE]

\* lines 103-106: the key, the lookup of the stored handle and the test
\* "if not jira"; request.jira_token is not read
fetch_epic_stories_lookup(r) ==
    LET key == session_cache_key(r.domain, r.email)
        hit == key \in DOMAIN cached_dict
        s == Started(r, key, hit)
    IN IF hit
       THEN [s EXCEPT !.jira = Some(cached_dict[key])]
       ELSE [s EXCEPT !.contacted = TRUE]

\* variant: the stored handle is not looked up
fetch_epic_stories_begin_no_lookup(id) ==
    /\ Start(id, "fetch-stories")
    /\ LET r == reqs[id]
           key == session_cache_key(r.domain, r.email)
           s == Started(r, key, key \in DOMAIN cached_dict)
       IN \E n \in Call([s EXCEPT !.contacted = TRUE], "JIRA") : reqs' = Put(reqs, id, n)
    /\ UNCHANGED <<cached_dict, test_case_cache, arrived, last, generated>>

\* lines 103-112: look the key up; on a hit go on to jira.issue with the
\* stored handle, otherwise enter JIRA(...)
fetch_epic_stories_begin(id) ==
    /\ Start(id, "fetch-stories")
    /\ LET s == fetch_epic_stories_lookup(reqs[id])
       IN \E n \in Call(s, IF s.hit THEN "issue" ELSE "JIRA") :
             reqs' = Put(reqs, id, n)
    /\ UNCHANGED <<cached_dict, test_case_cache, arrived, last, generated>>

\* lines 107-112: JIRA(...) returns or raises; on return the new handle is
\* stored at once and the handler enters jira.issue
fetch_epic_stories_client(id, out) ==
    /\ At(id, "fetch-stories", "JIRA")
    /\ LET r == reqs[id] IN
       IF out.ok
       THEN /\ cached_dict' = Put(cached_dict, r.cache_key[1], NewHandle(r))
            /\ \E n \in Call([r EXCEPT !.jira = Some(NewHandle(r)), !.created = TRUE,
                                       !.stored = TRUE], "issue") :
                 reqs' = Put(reqs, id, n)
            /\ UNCHANGED last
       ELSE /\ RaiseJira(r, out)
            /\ UNCHANGED cached_dict
    /\ UNCHANGED <<test_case_cache, arrived, generated>>

\* variant: a failure of jira.issue evicts the handle that was used
fetch_epic_stories_issue_evicts(id, out) ==
    /\ At(id, "fetch-stories", "issue")
    /\ LET r == reqs[id] IN
       IF out.ok
       THEN /\ \E n \in Call(r, "search_issues") : reqs' = Put(reqs, id, n)
            /\ UNCHANGED <<last, cached_dict>>
       ELSE /\ RaiseJira(r, out)
            /\ cached_dict' = Remove(cached_dict, r.cache_key[1])
    /\ UNCHANGED <<test_case_cache, arrived, generated>>

\* lines 112-117: jira.issue returns or raises; on return the handler enters
\* jira.search_issues
fetch_epic_stories_issue(id, out) ==
    /\ At(id, "fetch-stories", "issue")
    /\ LET r == reqs[id] IN
       IF out.ok
       THEN /\ \E n \in Call(r, "search_issues") : reqs' = Put(reqs, id, n)
            /\ UNCHANGED last
       ELSE RaiseJira(r, out)
    /\ UNCHANGED <<cached_dict, test_case_cache, arrived, generated>>

\* lines 117-171: jira.search_issues returns or raises; the stories are
\* shaped into the response (the field extraction may itself raise)
fetch_epic_stories_search(id, out) ==
    /\ At(id, "fetch-stories", "search_issues")
    /\ LET r == reqs[id] IN
       IF out.ok
       THEN Complete(r, Ok(<<"stories", r.jira_id>>))
       ELSE RaiseJira(r, out)
    /\ UNCHANGED <<cached_dict, test_case_cache, arrived, generated>>

(***************************************************************************)
(* generate_test_cases, app.py:182-213                                     *)
(***************************************************************************)
\* variant: the stored result is not looked up
generate_test_cases_begin_no_lookup(id) ==
    /\ Start(id, "generate-test-cases")
    /\ LET r == reqs[id]
           key == create_cache_key(r.user_story, r.jira_id,
                                   OrStr(r.acceptance_criteria, <<>>))
           s == Started(r, key, key \in DOMAIN test_case_cache)
       IN \E n \in Call([s EXCEPT !.invoked = TRUE], "invoke") : reqs' = Put(reqs, id, n)
    /\ UNCHANGED <<cached_dict, test_case_cache, arrived, last, generated>>

\* lines 186-200: compute the key; on a hit return the stored result,
\* otherwise enter llm_model.invoke
generate_test_cases_begin(id) ==
    /\ Start(id, "generate-test-cases")
    /\ LET r == reqs[id]
           key == create_cache_key(r.user_story, r.jira_id,
                                   OrStr(r.acceptance_criteria, <<>>))
           hit == key \in DOMAIN test_case_cache
           s == Started(r, key, hit)
       IN IF hit
          THEN /\ Complete(s, Ok(test_case_cache[key]))
               /\ Remember(s, test_case_cache[key])
          ELSE /\ \E n \in Call([s EXCEPT !.invoked = TRUE], "invoke") :
                    reqs' = Put(reqs, id, n)
               /\ UNCHANGED <<last, generated>>
    /\ UNCHANGED <<cached_dict, test_case_cache, arrived>>

\* variant: an entry is written before the outcome of the call is known
generate_test_cases_invoke_stores_first(id, out) ==
    /\ At(id, "generate-test-cases", "invoke")
    /\ LET r == reqs[id]
           result == [content |-> out.content, token_count |-> token_count(out.content)]
       IN /\ test_case_cache' = Put(test_case_cache, r.cache_key[1], result)
          /\ IF out.ok
             THEN /\ Complete([r EXCEPT !.stored = TRUE], Ok(result))
                  /\ Remember(r, result)
             ELSE /\ Complete([r EXCEPT !.failure = Some(out)], GenerateHandlerError)
                  /\ UNCHANGED generated
    /\ UNCHANGED <<cached_dict, arrived>>

\* lines 200-213: llm_model.invoke returns or raises; on return the result
\* is counted, stored and returned
generate_test_cases_invoke(id, out) ==
    /\ At(id, "generate-test-cases", "invoke")
    /\ LET r == reqs[id]
           result == [content |-> out.content, token_count |-> token_count(out.content)]
       IN IF out.ok
          THEN /\ test_case_cache' = Put(test_case_cache, r.cache_key[1], result)
               /\ Complete([r EXCEPT !.stored = TRUE], Ok(result))
               /\ Remember(r, result)
          ELSE /\ Complete([r EXCEPT !.failure = Some(out)], GenerateHandlerError)
               /\ UNCHANGED <<test_case_cache, generated>>
    /\ UNCHANGED <<cached_dict, arrived>>

\* a step of some handler
Handle ==
    \/ \E id \in 1..MaxReqs : health_check(id)
    \/ \E id \in 1..MaxReqs : authenticate_jira_begin(id)
    \/ \E id \in 1..MaxReqs, out \in JiraOutcomes : authenticate_jira_client(id, out)
    \/ \E id \in 1..MaxReqs, out \in JiraOutcomes : authenticate_jira_myself(id, out)
    \/ \E id \in 1..MaxReqs : fetch_epic_stories_begin(id)
    \/ \E id \in 1..MaxReqs, out \in JiraOutcomes : fetch_epic_stories_client(id, out)
    \/ \E id \in 1..MaxReqs, out \in JiraOutcomes : fetch_epic_stories_issue(id, out)
    \/ \E id \in 1..MaxReqs, out \in JiraOutcomes : fetch_epic_stories_search(id, out)
    \/ \E id \in 1..MaxReqs : generate_test_cases_begin(id)
    \/ \E id \in 1..MaxReqs, out \in LlmOutcomes : generate_test_cases_invoke(id, out)

Next ==
    \/ Receive
    \/ Handle

Spec == Init /\ [][Next]_vars

\* The loop runs a scheduled handler whenever it is free, and a blocking call
\* that is not hung returns: a handler step that stays possible is taken.
FairSpec == Spec /\ WF_vars(Handle)

(***************************************************************************)
(* Vocabulary of the properties.                                           *)
(***************************************************************************)
SessionOps == {"authenticate", "fetch-stories"}

\* the requests whose handler has started: those inside a handler and the
\* one answered most recently
Running == { reqs[id] : id \in { i \in DOMAIN reqs : reqs[i].pc # "pending" } }

Handled == Running \cup (IF last.id # 0 THEN {last} ELSE {})

\* the most recent answer, seen before the next handler starts
JustAnswered(ops) == last.id # 0 /\ last.op \in ops /\ ~LoopBusy

StatusOf(r) == r.response[1].status_code

\* the key a request's handler derives from the request
KeyOf(r) ==
    IF r.op = "generate-test-cases"
    THEN create_cache_key(r.user_story, r.jira_id, OrStr(r.acceptance_criteria, <<>>))
    ELSE session_cache_key(r.domain, r.email)

\* the handler saw a miss and is inside the call it makes on a miss
InMissCall(r) ==
    \/ r.op = "generate-test-cases" /\ r.pc = "invoke"
    \/ r.op = "fetch-stories" /\ r.pc = "JIRA"

(***************************************************************************)
(* C1: when a request misses the session cache and the issue tracker fails *)
(* during it, the session cache after the request equals the session cache *)
(* before it.                                                              *)
(***************************************************************************)
C1_FailedMissLeavesSessionCache ==
    (JustAnswered(SessionOps) /\ ~last.hit /\ last.failure # None)
        => cached_dict = last.pre_cached_dict

(***************************************************************************)
(* C2, as stated: when the session cache holds a handle for the key, an    *)
(* Authenticate or FetchStories request obtains the stored handle, creates *)
(* no new handle and does not contact the authentication collaborator.     *)
(***************************************************************************)
C2_HitReusesStoredHandle ==
    \A r \in Handled :
        (r.op \in SessionOps /\ r.hit)
            => /\ ~r.created
               /\ ~r.contacted
               /\ r.jira = Some(r.pre_cached_dict[r.cache_key[1]])

(***************************************************************************)
(* C2, amended: when the session cache holds a handle for the key, a       *)
(* FetchStories request obtains the stored handle, creates no new handle   *)
(* and does not contact the authentication collaborator; an Authenticate   *)
(* request does not consult the cache: it always contacts the collaborator *)
(* and any handle it holds is one it created itself.                       *)
(***************************************************************************)
C2_FetchHitReusesStoredHandle ==
    \A r \in Handled :
        /\ (r.op = "fetch-stories" /\ r.hit)
              => /\ ~r.created
                 /\ ~r.contacted
                 /\ r.jira = Some(r.pre_cached_dict[r.cache_key[1]])
        /\ r.op = "authenticate"
              => /\ r.contacted
                 /\ r.jira # None => (r.created /\ r.jira[1].id = r.id)

\* a FetchStories request was answered through a handle found in the cache
C2_FetchHitAnswered ==
    /\ last.id # 0
    /\ last.op = "fetch-stories"
    /\ last.hit
    /\ StatusOf(last) = 200
    /\ last.jira[1].id # last.id

(***************************************************************************)
(* C3: a request for the pair (endpoint, principal) never uses a handle    *)
(* that was created for a different pair, also when endpoint or principal  *)
(* contain ':'.                                                            *)
(***************************************************************************)
C3_HandleBelongsToPair ==
    \A r \in Handled :
        (r.op \in SessionOps /\ r.jira # None)
            => /\ r.jira[1].server = r.domain
               /\ r.jira[1].basic_auth[1] = r.email

(***************************************************************************)
(* C4: once a GenerateTestCases request for a triple has been answered     *)
(* successfully, every later request for the same triple (an absent        *)
(* acceptance_criteria counting as "") gets exactly that answer and does   *)
(* not invoke the generator; a request whose key is not stored invokes it. *)
(***************************************************************************)
C4_RepeatedTripleServedFromCache ==
    \A r \in Handled :
        r.op = "generate-test-cases"
            => /\ (Triple(r) \in DOMAIN generated /\ generated[Triple(r)].by # r.id)
                    => /\ ~r.invoked
                       /\ r.response # None
                       /\ r.response[1] = Ok(generated[Triple(r)].result)
               /\ r.cache_key[1] \notin DOMAIN r.pre_test_case_cache => r.invoked

\* a triple answered before was asked again and answered without the generator
C4_TripleAskedAgain ==
    /\ last.id # 0
    /\ last.op = "generate-test-cases"
    /\ Triple(last) \in DOMAIN generated
    /\ generated[Triple(last)].by # last.id
    /\ ~last.invoked

(***************************************************************************)
(* C5: a response-cache entry never changes its value once populated: in   *)
(* every step every key present keeps its value.                           *)
(***************************************************************************)
C5_EntriesImmutable ==
    [][\A k \in DOMAIN test_case_cache :
          /\ k \in DOMAIN test_case_cache'
          /\ test_case_cache'[k] = test_case_cache[k]]_vars

\* a request for a populated key has been handled and the entry is as it was
C5_PopulatedKeyRequestedAgain ==
    /\ last.id # 0
    /\ last.op = "generate-test-cases"
    /\ last.hit
    /\ test_case_cache[last.cache_key[1]] = last.pre_test_case_cache[last.cache_key[1]]

(***************************************************************************)
(* C6: triples that differ in any field get different keys, also when the  *)
(* fields contain the delimiter '|'; equal triples get equal keys.         *)
(***************************************************************************)
C6_KeySeparatesTriples ==
    \A r1, r2 \in Handled :
        (r1.op = "generate-test-cases" /\ r2.op = "generate-test-cases")
            => (Triple(r1) = Triple(r2) <=> r1.cache_key = r2.cache_key)

C8_BlocksOnlyOnOwnCall ==
    \A id \in 1..MaxReqs :
        (id \in DOMAIN reqs) ~> (id \notin DOMAIN reqs \/ reqs[id].hung)

(***************************************************************************)
(* C9: Authenticate and FetchStories report 401 exactly when the issue     *)
(* tracker reports status 401, any other issue-tracker failure with the    *)
(* upstream status when there is one and with 500 when there is none, any  *)
(* other failure with 500; no failure yields a success response.           *)
(***************************************************************************)
C9_FailureStatusMapping ==
    \A r \in Handled :
        (r.op \in SessionOps /\ r.response # None)
            => /\ r.failure = None <=> StatusOf(r) = 200
               /\ r.failure # None =>
                    LET f == r.failure[1] IN
                    /\ StatusOf(r) = 401 <=> (f.exc = "JIRAError" /\ f.status_code = Some(401))
                    /\ (f.exc = "JIRAError" /\ f.status_code # None)
                          => StatusOf(r) = f.status_code[1]
                    /\ (f.exc = "JIRAError" /\ f.status_code = None) => StatusOf(r) = 500
                    /\ f.exc # "JIRAError" => StatusOf(r) = 500

\* an issue-tracker failure other than 401 was reported with its own status
C9_UpstreamStatusReported ==
    /\ last.id # 0
    /\ last.op \in SessionOps
    /\ last.failure = Some([ok |-> FALSE, exc |-> "JIRAError", status_code |-> Some(404)])
    /\ StatusOf(last) = 404

(***************************************************************************)
(* C10: when the generator fails during a GenerateTestCases request that   *)
(* missed the response cache, the response cache is unchanged and holds no *)
(* entry for the key, the caller receives 500, and a later request for the *)
(* same triple invokes the generator again.                                *)
(***************************************************************************)
C10_FailedGenerationStoresNothing ==
    /\ (JustAnswered({"generate-test-cases"}) /\ last.failure # None)
          => /\ test_case_cache = last.pre_test_case_cache
             /\ last.cache_key[1] \notin DOMAIN test_case_cache
             /\ last.response[1] = GenerateHandlerError
             /\ StatusOf(last) = 500
    /\ \A r \in Running :
          (/\ r.op = "generate-test-cases"
           /\ last.id # 0
           /\ last.op = "generate-test-cases"
           /\ last.failure # None
           /\ Triple(r) = Triple(last))
              => r.invoked

\* after a failed generation the same triple was asked again and the
\* generator invoked again
C10_RetriedAfterFailure ==
    /\ last.id # 0
    /\ last.op = "generate-test-cases"
    /\ last.failure # None
    /\ \E r \in Running :
          r.op = "generate-test-cases" /\ Triple(r) = Triple(last) /\ r.invoked

(***************************************************************************)
(* C11: no entry is ever removed from either cache: in every step the key  *)
(* sets of the session cache and of the response cache contain what they   *)
(* contained before, also in a step in which an operation that uses a      *)
(* cached handle fails.                                                    *)
(***************************************************************************)
C11_NoEntryRemoved ==
    [][/\ DOMAIN cached_dict \subseteq DOMAIN cached_dict'
       /\ DOMAIN test_case_cache \subseteq DOMAIN test_case_cache']_vars

\* an operation through a cached handle failed with 401 and the handle is
\* still stored
C11_CachedHandleFailed ==
    /\ last.id # 0
    /\ last.op = "fetch-stories"
    /\ last.hit
    /\ StatusOf(last) = 401
    /\ last.cache_key[1] \in DOMAIN cached_dict
    /\ cached_dict[last.cache_key[1]] = last.jira[1]

(***************************************************************************)
(* C12: a successful Authenticate for a key overwrites the session cache:  *)
(* right after it the handle stored for the key is the one that call       *)
(* created, and a FetchStories for the key that follows uses that handle.  *)
(***************************************************************************)
C12_AuthenticateOverwrites ==
    /\ (JustAnswered({"authenticate"}) /\ StatusOf(last) = 200)
          => /\ last.cache_key[1] \in DOMAIN cached_dict
             /\ cached_dict[last.cache_key[1]] = NewHandle(last)
             /\ cached_dict[last.cache_key[1]].id = last.id
    /\ \A r \in Running :
          (/\ r.op = "fetch-stories"
           /\ last.id # 0
           /\ last.op = "authenticate"
           /\ StatusOf(last) = 200
           /\ KeyOf(r) = KeyOf(last))
              => r.jira = Some(NewHandle(last))

\* a successful Authenticate replaced a handle stored by an earlier request
C12_EarlierHandleReplaced ==
    /\ last.id # 0
    /\ last.op = "authenticate"
    /\ StatusOf(last) = 200
    /\ last.hit
    /\ last.pre_cached_dict[last.cache_key[1]].id # last.id
    /\ cached_dict[last.cache_key[1]].id = last.id

(***************************************************************************)
(* C13: every handle in the session cache comes from a successful          *)
(* authentication for its key: a request that stores a handle has had its  *)
(* credentials verified first, on the Authenticate path and on the         *)
(* FetchStories miss path.                                                 *)
(***************************************************************************)
C13_StoredHandleVerified ==
    \A r \in Handled :
        (r.op \in SessionOps /\ r.stored)
            => r.verified

\* the number of whitespace-delimited tokens of s, read left to right;
\* in_token: the previous character belongs to a token
RECURSIVE WhitespaceTokens(_, _)
WhitespaceTokens(s, in_token) ==
    IF s = <<>>
    THEN 0
    ELSE IF Head(s) = " "
         THEN WhitespaceTokens(Tail(s), FALSE)
         ELSE (IF in_token THEN 0 ELSE 1) + WhitespaceTokens(Tail(s), TRUE)

(***************************************************************************)
(* C14: every entry of the response cache has token_count equal to the     *)
(* number of whitespace-delimited tokens of its content, and so has every  *)
(* successful GenerateTestCases response, on the miss and on the hit path. *)
(***************************************************************************)
C14_TokenCountMatchesContent ==
    /\ \A k \in DOMAIN test_case_cache :
          test_case_cache[k].token_count
              = WhitespaceTokens(test_case_cache[k].content, FALSE)
    /\ \A r \in Handled :
          (r.op = "generate-test-cases" /\ r.response # None /\ StatusOf(r) = 200)
              => r.response[1].body.token_count
                    = WhitespaceTokens(r.response[1].body.content, FALSE)

\* a stored result whose content starts with whitespace was returned on a hit
C14_HitReturnsCountedContent ==
    /\ last.id # 0
    /\ last.op = "generate-test-cases"
    /\ last.hit
    /\ last.response[1].body.content = <<" ", "x", " ", "y">>
    /\ last.response[1].body.token_count = 2

(***************************************************************************)
(* C15: on a session-cache hit FetchStories does not consult the secret:   *)
(* a request that differs only in its secret finds the same handle, and    *)
(* the handle used, the response and the resulting cache do not depend on  *)
(* the secret.                                                             *)
(***************************************************************************)
C15_HitIgnoresSecret ==
    /\ \A id \in DOMAIN reqs, t \in Tokens :
          (/\ Pending(id)
           /\ reqs[id].op = "fetch-stories"
           /\ KeyOf(reqs[id]) \in DOMAIN cached_dict)
              => fetch_epic_stories_lookup([reqs[id] EXCEPT !.jira_token = t])
                    = [fetch_epic_stories_lookup(reqs[id]) EXCEPT !.jira_token = t]
    /\ \A r \in Handled :
          (r.op = "fetch-stories" /\ r.hit)
              => /\ r.jira = Some(r.pre_cached_dict[r.cache_key[1]])
                 /\ r.response # None
                       => r.response[1] = IF r.failure = None
                                          THEN Ok(<<"stories", r.jira_id>>)
                                          ELSE JiraHandlerError(r.failure[1])
    /\ (JustAnswered({"fetch-stories"}) /\ last.hit)
          => cached_dict = last.pre_cached_dict

\* a request whose secret differs from the one the stored handle was built
\* with was served through that handle
C15_WrongSecretServed ==
    /\ last.id # 0
    /\ last.op = "fetch-stories"
    /\ last.hit
    /\ StatusOf(last) = 200
    /\ last.jira[1].basic_auth[2] # last.jira_token
    /\ last.jira[1].basic_auth[1] = last.email

(***************************************************************************)
(* C16: the two caches are independent: a step of Authenticate or of       *)
(* FetchStories leaves the response cache unchanged, a step of             *)
(* GenerateTestCases leaves the session cache unchanged and the liveness   *)
(* probe leaves both unchanged, in failing executions too.                 *)
(***************************************************************************)
C16_CachesIndependent ==
    [][\A id \in DOMAIN reqs :
          (id \notin DOMAIN reqs' \/ reqs'[id] # reqs[id])
              => /\ reqs[id].op \in SessionOps => test_case_cache' = test_case_cache
                 /\ reqs[id].op = "generate-test-cases" => cached_dict' = cached_dict
                 /\ reqs[id].op = "health"
                       => /\ test_case_cache' = test_case_cache
                          /\ cached_dict' = cached_dict]_vars

\* with a result stored in the response cache, an issue-tracker request
\* that wrote the session cache has failed
C16_FailedSessionRequestBesideResults ==
    /\ last.id # 0
    /\ last.op = "fetch-stories"
    /\ last.stored
    /\ last.failure # None
    /\ DOMAIN test_case_cache # {}
    /\ test_case_cache = last.pre_test_case_cache
    /\ DOMAIN cached_dict # {}

====
